---- MODULE Spec2Model ----
(***************************************************************************)
(* Remote execution through tio.run: runTestCase (executions.ts) calls     *)
(* runOnTio (tioRunner.ts), which resolves the execution endpoint          *)
(* (ensureRunUrl), posts the request (executeRequest) and decodes the      *)
(* answer.  Each invocation is an async function; every await is a point   *)
(* where other invocations, timer callbacks and killRunning may run.       *)
(***************************************************************************)
EXTENDS Integers, Sequences, FiniteSets, TLC

(* ---------------- bounds of the model ---------------- *)
NumInvocations == 2
MaxTicks == 2

(* ---------------- program constants ---------------- *)
RUN_URL_REFRESH_MS == 850000
MIN_TIMEOUT_MS == 500
TIMEOUT_EXIT_CODE == 124

Invocations == 1..NumInvocations

(* ---------------- JavaScript numbers ---------------- *)
\* A number is finite, NaN, +Infinity or -Infinity.
Fin(n) == [k |-> "fin", v |-> n]
NaN == [k |-> "nan", v |-> 0]
PosInf == [k |-> "pinf", v |-> 0]
NegInf == [k |-> "ninf", v |-> 0]

IsFinite(x) == x.k = "fin"

\* Math.max(a, b): NaN if either is NaN, otherwise the larger.
MathMax(a, b) ==
    IF a.k = "nan" \/ b.k = "nan" THEN NaN
    ELSE IF a.k = "pinf" \/ b.k = "pinf" THEN PosInf
    ELSE IF a.k = "ninf" THEN b
    ELSE IF b.k = "ninf" THEN a
    ELSE IF a.v >= b.v THEN a ELSE b

\* x > 0 in JavaScript (false for NaN).
GreaterThanZero(x) == x.k = "pinf" \/ (x.k = "fin" /\ x.v > 0)

\* The values getTimeOutPref() may hand to runOnTio.
TimeoutPrefs == {Fin(1), NaN}

\* The endpoint tokens the frontend script may name.
Endpoints == {"u1", "u2"}

\* What the execution server may answer with a 200: well-formed diagnostics
\* with an exit code and a CPU share, or a body the decoder rejects.
NoReply == [wellFormed |-> FALSE, exitCode |-> 0, CPUshare |-> 0]
ServerReplies ==
    {[wellFormed |-> TRUE, exitCode |-> 0, CPUshare |-> 50],
     [wellFormed |-> TRUE, exitCode |-> TIMEOUT_EXIT_CODE, CPUshare |-> 0],
     NoReply}

\* The languages the editor may detect ("null": none) and the override
\* problem.tioLanguage ("undefined": none).
Languages ==
    {[name |-> "cpp", compiler |-> "g++"],
     [name |-> "cpp", compiler |-> "Clang++"],
     [name |-> "python", compiler |-> "python3"],
     [name |-> "kotlin", compiler |-> "kotlinc"]}
NoLanguage == [name |-> "null", compiler |-> ""]
Overrides == {"undefined", "ruby"}
\* The same with the empty string, and the languages of the runs in which
\* the language is not what is looked at.
WideOverrides == {"undefined", "", "ruby"}
FewLanguages == {[name |-> "cpp", compiler |-> "g++"],
                 [name |-> "kotlin", compiler |-> "kotlinc"]}

VARIABLES
    runUrl,             \* tioRunner.ts: let runUrl ("null" or a token)
    nextRefreshAt,      \* tioRunner.ts: let nextRefreshAt
    now,                \* Date.now()
    ticks,              \* number of clock steps taken (bounded by MaxTicks)
    runningExecutions,  \* executions.ts: the registry of AbortControllers
    pc,                 \* where each runTestCase invocation is
    signalAborted,      \* abortController.signal.aborted of the invocation
    timeout,            \* options.timeout as given by the caller
    timedOut,           \* executeRequest: let timedOut
    controllerAborted,  \* executeRequest: controller.signal.aborted
    timerArmed,         \* executeRequest: the setTimeout is pending
    listening,          \* executeRequest: handleAbort is registered
    exec,               \* how executeRequest ended
    tio,                \* how runOnTio ended
    run,                \* the Run that runTestCase returned
    obs,                \* what each invocation did (observations)
    cacheLog,           \* the writes of the endpoint cache (observations)
    runAll,             \* processRunAll.ts: the run-all command in progress
    decoder,            \* runOnTio: a decompressed response being decoded
    encoder             \* buildRequestBody: a request being encoded

vars == <<runUrl, nextRefreshAt, now, ticks, runningExecutions, pc,
          signalAborted, timeout, timedOut, controllerAborted, timerArmed,
          listening, exec, tio, run, obs, cacheLog, runAll, decoder, encoder>>

cacheVars == <<runUrl, nextRefreshAt, cacheLog>>
clockVars == <<now, ticks>>
requestVars == <<timedOut, controllerAborted, timerArmed, listening>>
codecVars == <<decoder, encoder>>
sideVars == <<runAll, decoder, encoder>>
programVars == <<cacheVars, clockVars, requestVars, runningExecutions, pc,
                 signalAborted, timeout, exec, tio, run, obs>>

(* ---------------- executions.ts: language mapping ---------------- *)
\* normalizeCompiler(compiler).includes('clang')
IncludesClang(compiler) == compiler \in {"clang", "clang++", "Clang", "Clang++"}
\* normalizeCompiler(compiler).includes('python2')
IncludesPython2(compiler) == compiler \in {"python2", "Python2", "python2.7"}

\* !value for a string that may be undefined.
Falsy(value) == value \in {"undefined", ""}

\* mapLanguageToTio: the service token, or "throws" for the default branch.
mapLanguageToTio(language) ==
    CASE language.name \in {"cpp", "cc", "cxx"} ->
            IF IncludesClang(language.compiler) THEN "cpp-clang" ELSE "cpp-gcc"
      [] language.name = "c" ->
            IF IncludesClang(language.compiler) THEN "c-clang" ELSE "c-gcc"
      [] language.name = "python" ->
            IF IncludesPython2(language.compiler) THEN "python2" ELSE "python3"
      [] language.name = "ruby" -> "ruby"
      [] language.name = "js" -> "javascript-node"
      [] language.name = "java" -> "java-openjdk"
      [] language.name = "rust" -> "rust"
      [] language.name = "go" -> "go"
      [] language.name = "hs" -> "haskell"
      [] language.name = "csharp" -> "cs-mono"
      [] OTHER -> "throws"

\* A variant that asks the mapper first.
ResolveTioLanguageMapperFirst(language, override) ==
    IF language # NoLanguage THEN mapLanguageToTio(language)
    ELSE override

\* runTestCase: overrideTioLanguage ?? (language ? mapLanguageToTio(language) : undefined)
ResolveTioLanguage(language, override) ==
    IF override # "undefined" THEN override
    ELSE IF language # NoLanguage THEN mapLanguageToTio(language)
    ELSE "undefined"

(* ---------------- results ---------------- *)
\* A time in seconds: whole seconds and thousandths (k as for numbers).
ZeroSeconds == [k |-> "fin", s |-> 0, ms |-> 0]

\* ToSeconds without the division.
ToSecondsNoDivision(t) == [k |-> t.k, s |-> t.v, ms |-> 0]

\* runOnTio: const seconds = normalized.timeout / 1000
ToSeconds(t) == [k |-> t.k, s |-> t.v \div 1000, ms |-> t.v % 1000]

\* runTestCase: Math.round(tioResponse.realTime * 1000)
RoundedMillis(sec) ==
    IF sec.k = "fin" THEN Fin(sec.s * 1000 + sec.ms) ELSE [k |-> sec.k, v |-> 0]

TioPending ==
    [kind |-> "pending", output |-> "", timedOut |-> FALSE, exitCode |-> 0,
     CPUshare |-> 0, realTime |-> ZeroSeconds, userTime |-> ZeroSeconds,
     sysTime |-> ZeroSeconds]

\* TimedOutResult without the exit code of a timeout.
TimedOutResultExitZero(normalizedTimeout) ==
    [kind |-> "result", output |-> "Request timed out", timedOut |-> TRUE,
     exitCode |-> 0, CPUshare |-> 0,
     realTime |-> ToSeconds(normalizedTimeout),
     userTime |-> ToSeconds(normalizedTimeout),
     sysTime |-> ToSeconds(normalizedTimeout)]

\* runOnTio, the branch taken when executeRequest gave no buffer.
TimedOutResult(normalizedTimeout) ==
    [kind |-> "result", output |-> "Request timed out", timedOut |-> TRUE,
     exitCode |-> TIMEOUT_EXIT_CODE, CPUshare |-> 0,
     realTime |-> ToSeconds(normalizedTimeout),
     userTime |-> ToSeconds(normalizedTimeout),
     sysTime |-> ToSeconds(normalizedTimeout)]

\* runOnTio, the result decoded from a well-formed answer; timedOut is the
\* flag executeRequest returned beside the buffer.
DecodedResult(reply, flag) ==
    [kind |-> "result", output |-> "server output", timedOut |-> flag,
     exitCode |-> reply.exitCode, CPUshare |-> reply.CPUshare,
     realTime |-> ZeroSeconds, userTime |-> ZeroSeconds,
     sysTime |-> ZeroSeconds]

\* runOnTio rejected with the named error.
TioError(name) ==
    [kind |-> name, output |-> "", timedOut |-> FALSE, exitCode |-> 0,
     CPUshare |-> 0, realTime |-> ZeroSeconds, userTime |-> ZeroSeconds,
     sysTime |-> ZeroSeconds]

\* runTestCase: const result: Run = {...}
InitialRun ==
    [stdout |-> "", stderr |-> "", code |-> <<>>, signal |-> "null",
     time |-> Fin(0), timeOut |-> FALSE]

\* A variant whose catch branch does not tell an abort from other errors.
RunOfAbortedAsError(t) ==
    IF t.kind = "result"
    THEN [stdout |-> t.output, stderr |-> "", code |-> <<t.exitCode>>,
          signal |-> "null", time |-> MathMax(Fin(0), RoundedMillis(t.realTime)),
          timeOut |-> t.timedOut]
    ELSE [InitialRun EXCEPT !.stderr = "error message", !.signal = "ERROR"]

\* runTestCase: the Run built from how runOnTio ended (try / catch).
RunOf(t) ==
    IF t.kind = "result"
    THEN [stdout |-> t.output, stderr |-> "", code |-> <<t.exitCode>>,
          signal |-> "null", time |-> MathMax(Fin(0), RoundedMillis(t.realTime)),
          timeOut |-> t.timedOut]
    ELSE IF t.kind = "ExecutionAbortedError"
    THEN [InitialRun EXCEPT !.stderr = "Execution aborted by user.",
                            !.signal = "ABORTED"]
    ELSE [InitialRun EXCEPT !.stderr = "error message", !.signal = "ERROR"]

\* runTestCase: the Run returned when no service language is resolved.
NoLanguageRun ==
    [InitialRun EXCEPT !.stderr = "Unable to resolve a tio.run language",
                       !.signal = "ERROR"]

(* ---------------- tioRunner.ts: pure parts ---------------- *)
\* NormalizeTimeout without the floor.
NormalizeTimeoutNoFloor(t) == t

\* runOnTio: timeout: Math.max(MIN_TIMEOUT_MS, options.timeout)
NormalizeTimeout(t) == MathMax(Fin(MIN_TIMEOUT_MS), t)

\* A variant that never arms the timer.
TimerWantedNever(t) == FALSE

\* executeRequest: Number.isFinite(options.timeout) && options.timeout > 0
TimerWanted(t) == IsFinite(t) /\ GreaterThanZero(t)

\* CacheFresh with the expiry instant still counted as fresh.
CacheFreshInclusive == runUrl # "null" /\ now <= nextRefreshAt

\* ensureRunUrl: runUrl !== null && Date.now() < nextRefreshAt
CacheFresh == runUrl # "null" /\ now < nextRefreshAt

\* CatchAbort testing the external signal before the timer flag.
CatchAbortSignalFirst(isTimedOut, isSignalAborted) ==
    IF isSignalAborted THEN "ExecutionAbortedError"
    ELSE IF isTimedOut THEN "marker"
    ELSE "Error"

\* executeRequest, the catch block for an AbortError.
CatchAbort(isTimedOut, isSignalAborted) ==
    IF isTimedOut THEN "marker"
    ELSE IF isSignalAborted THEN "ExecutionAbortedError"
    ELSE "Error"

\* runOnTio after executeRequest ended as `e`.
TioOf(e, reply, normalizedTimeout) ==
    CASE e = "marker" -> TimedOutResult(normalizedTimeout)
      [] e = "buffer" ->
            IF reply.wellFormed THEN DecodedResult(reply, FALSE)
            ELSE TioError("Error")
      [] OTHER -> TioError(e)

InFlight(i) == pc[i] \in {"posting", "reading"}

NoObs ==
    [landingGets |-> 0, scriptGets |-> 0, posts |-> 0, cacheAtCheck |-> "none",
     urlAtCheck |-> "null", postUrl |-> "null", firstAbort |-> "none",
     preAborted |-> FALSE, overlapped |-> FALSE, executes |-> 0,
     timerDelay |-> <<>>, reply |-> NoReply, postStatus |-> "none",
     language |-> NoLanguage, override |-> "undefined",
     tioLanguage |-> "undefined", registered |-> FALSE,
     postLanguage |-> "undefined"]

NoWrites == [by |-> 0, url |-> "null", expiry |-> 0, produced |-> {}]

\* No run-all command has been given.
NoRunAll ==
    [pc |-> "idle", language |-> NoLanguage, tioLanguage |-> "undefined",
     index |-> 1, called |-> {}, running |-> <<>>, results |-> <<>>,
     ended |-> "no"]

\* A number parsed by parseFloat: whole seconds and milliseconds.
NotANumber == [k |-> "nan", s |-> 0, ms |-> 0]

\* No response is being decoded.
NoParts ==
    [form |-> "none", delimiter |-> <<>>, seg0 |-> <<>>, dbg |-> <<>>,
     good |-> FALSE, metrics |-> "none"]
NoDecoded ==
    [kind |-> "none", message |-> "", output |-> <<>>, timedOut |-> FALSE,
     realTime |-> NotANumber, userTime |-> NotANumber, sysTime |-> NotANumber,
     CPUshare |-> NotANumber, exitCode |-> 0]
NoDecoding ==
    [phase |-> "idle", content |-> <<>>, parts |-> NoParts, result |-> NoDecoded]

\* A text: its UTF-16 code units, and the bytes UTF-8 has for it.
EmptyText == [units |-> <<>>, bytes |-> <<>>]
\* No request is being encoded.
NoEncoding ==
    [phase |-> "idle", code |-> EmptyText, stdin |-> EmptyText, argv |-> <<>>,
     cflags |-> <<>>, language |-> <<>>, payload |-> <<>>]

(* ---------------- initial state ---------------- *)
InitProgram ==
    /\ runUrl = "null"
    /\ nextRefreshAt = 0
    /\ now = 0
    /\ ticks = 0
    /\ runningExecutions = {}
    /\ pc = [i \in Invocations |-> "idle"]
    /\ signalAborted = [i \in Invocations |-> FALSE]
    /\ timeout = [i \in Invocations |-> NaN]
    /\ timedOut = [i \in Invocations |-> FALSE]
    /\ controllerAborted = [i \in Invocations |-> FALSE]
    /\ timerArmed = [i \in Invocations |-> FALSE]
    /\ listening = [i \in Invocations |-> FALSE]
    /\ exec = [i \in Invocations |-> "none"]
    /\ tio = [i \in Invocations |-> TioPending]
    /\ run = [i \in Invocations |-> InitialRun]
    /\ obs = [i \in Invocations |-> NoObs]
    /\ cacheLog = NoWrites

Init ==
    /\ InitProgram
    /\ runAll = NoRunAll
    /\ decoder = NoDecoding
    /\ encoder = NoEncoding

(* ---------------- runTestCase (executions.ts) ---------------- *)
\* Returns without the finally block.
ReturnsStillRegistered(i, t) ==
    /\ tio' = [tio EXCEPT ![i] = t]
    /\ run' = [run EXCEPT ![i] = RunOf(t)]
    /\ UNCHANGED runningExecutions
    /\ pc' = [pc EXCEPT ![i] = "returned"]

\* The tail of runTestCase once runOnTio (or readFile) has ended: the try
\* or catch branch builds the Run, finally removes the controller.
Returns(i, t) ==
    /\ tio' = [tio EXCEPT ![i] = t]
    /\ run' = [run EXCEPT ![i] = RunOf(t)]
    /\ runningExecutions' = runningExecutions \ {i}
    /\ pc' = [pc EXCEPT ![i] = "returned"]

\* A variant in which the invocations share one controller.
RunTestCaseBeginsSharedController(i, language, override) ==
    /\ pc[i] = "idle"
    /\ LET tioLanguage == ResolveTioLanguage(language, override) IN
        /\ obs' = [obs EXCEPT ![i].language = language,
                              ![i].override = override,
                              ![i].tioLanguage = tioLanguage,
                              ![i].registered = ~Falsy(tioLanguage)
                                                  /\ tioLanguage # "throws"]
        /\ CASE tioLanguage = "throws" ->
                /\ pc' = [pc EXCEPT ![i] = "threw"]
                /\ UNCHANGED <<run, runningExecutions>>
          [] Falsy(tioLanguage) ->
                /\ pc' = [pc EXCEPT ![i] = "returned"]
                /\ run' = [run EXCEPT ![i] = NoLanguageRun]
                /\ UNCHANGED runningExecutions
          [] OTHER ->
                /\ pc' = [pc EXCEPT ![i] = "readFile"]
                /\ runningExecutions' = runningExecutions \cup {i}
                /\ UNCHANGED run
    /\ signalAborted' = [signalAborted EXCEPT
                            ![i] = \E j \in Invocations : signalAborted[j]]
    /\ UNCHANGED <<cacheVars, clockVars, requestVars, timeout, exec, tio>>

\* runTestCase up to its first await: resolve the language, register the
\* controller, start reading the source file.
RunTestCaseBegins(i, language, override) ==
    /\ pc[i] = "idle"
    /\ LET tioLanguage == ResolveTioLanguage(language, override) IN
        /\ obs' = [obs EXCEPT ![i].language = language,
                              ![i].override = override,
                              ![i].tioLanguage = tioLanguage,
                              ![i].registered = ~Falsy(tioLanguage)
                                                  /\ tioLanguage # "throws"]
        /\ CASE tioLanguage = "throws" ->
                /\ pc' = [pc EXCEPT ![i] = "threw"]
                /\ UNCHANGED <<run, runningExecutions>>
          [] Falsy(tioLanguage) ->
                /\ pc' = [pc EXCEPT ![i] = "returned"]
                /\ run' = [run EXCEPT ![i] = NoLanguageRun]
                /\ UNCHANGED runningExecutions
          [] OTHER ->
                /\ pc' = [pc EXCEPT ![i] = "readFile"]
                /\ runningExecutions' = runningExecutions \cup {i}
                /\ UNCHANGED run
    /\ UNCHANGED <<cacheVars, clockVars, requestVars, signalAborted, timeout,
                   exec, tio>>

\* runTestCase called on its own (the run-single command).
StartRunTestCase(i, language, override) ==
    /\ RunTestCaseBegins(i, language, override)
    /\ UNCHANGED sideVars

\* fs.readFile rejects: the catch branch reports an error.
ReadFileFails(i) ==
    /\ pc[i] = "readFile"
    /\ Returns(i, TioError("Error"))
    /\ UNCHANGED <<sideVars, cacheVars, clockVars, requestVars, signalAborted, timeout,
                   exec, obs>>

(* ---------------- runOnTio and ensureRunUrl (tioRunner.ts) ---------------- *)
\* Some other invocation is inside runOnTio.
OthersInRunOnTio(i) ==
    \E j \in Invocations \ {i} :
        pc[j] \in {"fetchLanding", "fetchScript", "resolved", "posting", "reading"}

\* fs.readFile resolves; runOnTio is called with timeout t and runs up to the
\* first await of ensureRunUrl: the cache test and, unless the cache is
\* fresh, the GET of the landing page.
CallRunOnTio(i, t) ==
    /\ pc[i] = "readFile"
    /\ timeout' = [timeout EXCEPT ![i] = t]
    /\ pc' = [pc EXCEPT ![i] = IF CacheFresh THEN "resolved" ELSE "fetchLanding"]
    /\ obs' = [j \in Invocations |->
                IF j = i
                THEN [obs[i] EXCEPT
                        !.preAborted = signalAborted[i],
                        !.cacheAtCheck =
                            IF runUrl # "null" /\ now < nextRefreshAt
                            THEN "fresh" ELSE "stale",
                        !.urlAtCheck = runUrl,
                        !.landingGets = IF CacheFresh THEN @ ELSE @ + 1,
                        !.overlapped = OthersInRunOnTio(i)]
                ELSE IF pc[j] \in {"fetchLanding", "fetchScript", "resolved",
                                   "posting", "reading"}
                THEN [obs[j] EXCEPT !.overlapped = TRUE]
                ELSE obs[j]]
    /\ UNCHANGED <<sideVars, cacheVars, clockVars, requestVars, signalAborted,
                   runningExecutions, exec, tio, run>>

\* The landing page answers: fetchText throws on a non-success status, and
\* ensureRunUrl throws when SCRIPT_REGEX does not match; otherwise the GET of
\* the frontend script is issued.
LandingResponse(i, ok, matches) ==
    /\ pc[i] = "fetchLanding"
    /\ IF ok /\ matches
       THEN /\ pc' = [pc EXCEPT ![i] = "fetchScript"]
            /\ obs' = [obs EXCEPT ![i].scriptGets = @ + 1]
            /\ UNCHANGED <<tio, run, runningExecutions>>
       ELSE /\ Returns(i, TioError("Error"))
            /\ UNCHANGED obs
    /\ UNCHANGED <<sideVars, cacheVars, clockVars, requestVars, signalAborted, timeout,
                   exec>>

\* WriteCache that stores the endpoint and leaves the expiry alone.
WriteCacheUrlOnly(newRunUrl) ==
    /\ runUrl' = newRunUrl
    /\ UNCHANGED nextRefreshAt

\* ensureRunUrl: runUrl = newRunUrl; nextRefreshAt = Date.now() + RUN_URL_REFRESH_MS
WriteCache(newRunUrl) ==
    /\ runUrl' = newRunUrl
    /\ nextRefreshAt' = now + RUN_URL_REFRESH_MS

\* ScriptResponse that stores the match before testing it.
ScriptResponseStoresFirst(i, ok, newRunUrl) ==
    /\ pc[i] = "fetchScript"
    /\ IF ok /\ newRunUrl # "null"
       THEN /\ WriteCache(newRunUrl)
            /\ cacheLog' = [by |-> i, url |-> newRunUrl,
                            expiry |-> now + RUN_URL_REFRESH_MS,
                            produced |-> cacheLog.produced \cup {newRunUrl}]
            /\ pc' = [pc EXCEPT ![i] = "resolved"]
            /\ UNCHANGED <<tio, run, runningExecutions>>
       ELSE /\ Returns(i, TioError("Error"))
            /\ IF ok THEN WriteCache(newRunUrl) ELSE UNCHANGED <<runUrl, nextRefreshAt>>
            /\ UNCHANGED cacheLog
    /\ UNCHANGED <<sideVars, clockVars, requestVars, signalAborted, timeout, exec,
                   obs>>

\* The frontend script answers; newRunUrl is "null" when RUN_URL_REGEX does
\* not match.
ScriptResponse(i, ok, newRunUrl) ==
    /\ pc[i] = "fetchScript"
    /\ IF ok /\ newRunUrl # "null"
       THEN /\ WriteCache(newRunUrl)
            /\ cacheLog' = [by |-> i, url |-> newRunUrl,
                            expiry |-> now + RUN_URL_REFRESH_MS,
                            produced |-> cacheLog.produced \cup {newRunUrl}]
            /\ pc' = [pc EXCEPT ![i] = "resolved"]
            /\ UNCHANGED <<tio, run, runningExecutions>>
       ELSE /\ Returns(i, TioError("Error"))
            /\ UNCHANGED cacheVars
    /\ UNCHANGED <<sideVars, clockVars, requestVars, signalAborted, timeout, exec,
                   obs>>

(* ---------------- executeRequest (tioRunner.ts) ---------------- *)
\* executeRequest ends as `e`; runOnTio and runTestCase run to their end.
Ends(i, e, reply) ==
    /\ exec' = [exec EXCEPT ![i] = e]
    /\ Returns(i, TioOf(e, reply, NormalizeTimeout(timeout[i])))

\* executeRequest, the finally block: clearTimeout and removeEventListener.
Finally(i) ==
    /\ timerArmed' = [timerArmed EXCEPT ![i] = FALSE]
    /\ listening' = [listening EXCEPT ![i] = FALSE]

\* A variant without the test of options.signal.aborted.
ExecuteRequestNoAbortTest(i) ==
    /\ pc[i] = "resolved"
    /\ LET t == NormalizeTimeout(timeout[i])
           armed == TimerWanted(t)
           delay == IF armed THEN <<t.v>> ELSE <<>>
       IN
        /\ timerArmed' = [timerArmed EXCEPT ![i] = armed]
        /\ listening' = [listening EXCEPT ![i] = TRUE]
        /\ obs' = [obs EXCEPT ![i].timerDelay = delay,
                              ![i].executes = @ + 1,
                              ![i].posts = @ + 1,
                              ![i].postUrl = runUrl,
                                   ![i].postLanguage = obs[i].tioLanguage]
        /\ pc' = [pc EXCEPT ![i] = "posting"]
        /\ UNCHANGED <<exec, tio, run, runningExecutions>>
    /\ UNCHANGED <<sideVars, cacheVars, clockVars, signalAborted, timeout, timedOut,
                   controllerAborted>>

\* ensureRunUrl has returned: the body is built and executeRequest runs up
\* to its first await.  The timer is armed first; a signal that is already
\* aborted throws before the try block, so nothing clears the timer.
ExecuteRequest(i) ==
    /\ pc[i] = "resolved"
    /\ LET t == NormalizeTimeout(timeout[i])
           armed == TimerWanted(t)
           delay == IF armed THEN <<t.v>> ELSE <<>>
       IN
        IF signalAborted[i]
        THEN /\ timerArmed' = [timerArmed EXCEPT ![i] = armed]
             /\ obs' = [obs EXCEPT ![i].timerDelay = delay,
                                   ![i].executes = @ + 1]
             /\ Ends(i, "ExecutionAbortedError", NoReply)
             /\ UNCHANGED listening
        ELSE /\ timerArmed' = [timerArmed EXCEPT ![i] = armed]
             /\ listening' = [listening EXCEPT ![i] = TRUE]
             /\ obs' = [obs EXCEPT ![i].timerDelay = delay,
                                   ![i].executes = @ + 1,
                                   ![i].posts = @ + 1,
                                   ![i].postUrl = runUrl,
                                   ![i].postLanguage = obs[i].tioLanguage]
             /\ pc' = [pc EXCEPT ![i] = "posting"]
             /\ UNCHANGED <<exec, tio, run, runningExecutions>>
    /\ UNCHANGED <<sideVars, cacheVars, clockVars, signalAborted, timeout, timedOut,
                   controllerAborted>>

\* PostResponse that goes on to read the body whatever the status.
PostResponseIgnoresStatus(i, ok) ==
    /\ pc[i] = "posting"
    /\ ~controllerAborted[i]
    /\ pc' = [pc EXCEPT ![i] = "reading"]
    /\ obs' = [obs EXCEPT ![i].postStatus = IF ok THEN "ok" ELSE "not ok"]
    /\ UNCHANGED <<sideVars, cacheVars, clockVars, signalAborted, timeout, requestVars,
                   runningExecutions, exec, tio, run>>

\* The POST answers with a status: a non-success status throws an Error.
PostResponse(i, ok) ==
    /\ pc[i] = "posting"
    /\ ~controllerAborted[i]
    /\ IF ok
       THEN /\ pc' = [pc EXCEPT ![i] = "reading"]
            /\ UNCHANGED <<exec, tio, run, runningExecutions, timerArmed,
                           listening>>
       ELSE /\ Ends(i, "Error", NoReply)
            /\ Finally(i)
    /\ obs' = [obs EXCEPT ![i].postStatus = IF ok THEN "ok" ELSE "not ok"]
    /\ UNCHANGED <<sideVars, cacheVars, clockVars, signalAborted, timeout, timedOut,
                   controllerAborted>>

\* NetworkError that issues the POST again instead of throwing.
NetworkErrorRetries(i) ==
    /\ InFlight(i)
    /\ ~controllerAborted[i]
    /\ pc' = [pc EXCEPT ![i] = "posting"]
    /\ obs' = [obs EXCEPT ![i].posts = @ + 1]
    /\ UNCHANGED <<sideVars, cacheVars, clockVars, signalAborted, timeout, requestVars,
                   runningExecutions, exec, tio, run>>

\* The fetch or the reading of the body fails for a reason other than an
\* abort.
NetworkError(i) ==
    /\ InFlight(i)
    /\ ~controllerAborted[i]
    /\ Ends(i, "Error", NoReply)
    /\ Finally(i)
    /\ UNCHANGED <<sideVars, cacheVars, clockVars, signalAborted, timeout, timedOut,
                   controllerAborted, obs>>

\* response.arrayBuffer() resolves: executeRequest returns the buffer and
\* runOnTio decodes it.
BodyRead(i, reply) ==
    /\ pc[i] = "reading"
    /\ ~controllerAborted[i]
    /\ Ends(i, "buffer", reply)
    /\ Finally(i)
    /\ obs' = [obs EXCEPT ![i].reply = reply]
    /\ UNCHANGED <<sideVars, cacheVars, clockVars, signalAborted, timeout, timedOut,
                   controllerAborted>>

\* The aborted fetch rejects with an AbortError and the catch block runs.
AbortHandled(i) ==
    /\ InFlight(i)
    /\ controllerAborted[i]
    /\ Ends(i, CatchAbort(timedOut[i], signalAborted[i]), NoReply)
    /\ Finally(i)
    /\ UNCHANGED <<sideVars, cacheVars, clockVars, signalAborted, timeout, timedOut,
                   controllerAborted, obs>>

\* TimerFires with a callback that aborts without setting timedOut.
TimerFiresNoFlag(i) ==
    /\ timerArmed[i]
    /\ timerArmed' = [timerArmed EXCEPT ![i] = FALSE]
    /\ controllerAborted' = [controllerAborted EXCEPT ![i] = TRUE]
    /\ obs' = [obs EXCEPT ![i].firstAbort =
                    IF InFlight(i) /\ @ = "none" THEN "timer" ELSE @]
    /\ UNCHANGED <<sideVars, cacheVars, clockVars, runningExecutions, pc, signalAborted,
                   timeout, timedOut, listening, exec, tio, run>>

\* The setTimeout callback: timedOut = true; controller.abort()
TimerFires(i) ==
    /\ timerArmed[i]
    /\ timerArmed' = [timerArmed EXCEPT ![i] = FALSE]
    /\ timedOut' = [timedOut EXCEPT ![i] = TRUE]
    /\ controllerAborted' = [controllerAborted EXCEPT ![i] = TRUE]
    /\ obs' = [obs EXCEPT ![i].firstAbort =
                    IF InFlight(i) /\ @ = "none" THEN "timer" ELSE @]
    /\ UNCHANGED <<sideVars, cacheVars, clockVars, runningExecutions, pc, signalAborted,
                   timeout, listening, exec, tio, run>>

(* ---------------- killRunning (executions.ts) ---------------- *)
\* KillRunning that aborts only one of the registered controllers.
KillRunningAbortsOne ==
    /\ LET one == IF runningExecutions = {} THEN {}
                  ELSE {CHOOSE i \in runningExecutions :
                            \A j \in runningExecutions : i <= j}
       IN
        /\ signalAborted' = [i \in Invocations |-> signalAborted[i] \/ i \in one]
        /\ controllerAborted' = [i \in Invocations |->
                controllerAborted[i] \/ (i \in one /\ listening[i])]
    /\ runningExecutions' = {}
    /\ UNCHANGED <<sideVars, cacheVars, clockVars, pc, timeout, timedOut, timerArmed,
                   listening, exec, tio, run, obs>>

\* Every registered controller is aborted (its listeners run at once) and
\* the registry is cleared.
KillRunning ==
    /\ signalAborted' = [i \in Invocations |->
                            signalAborted[i] \/ i \in runningExecutions]
    /\ controllerAborted' = [i \in Invocations |->
            controllerAborted[i] \/ (i \in runningExecutions /\ listening[i])]
    /\ obs' = [i \in Invocations |->
                IF i \in runningExecutions /\ ~signalAborted[i] /\ InFlight(i)
                   /\ obs[i].firstAbort = "none"
                THEN [obs[i] EXCEPT !.firstAbort = "signal"]
                ELSE obs[i]]
    /\ runningExecutions' = {}
    /\ UNCHANGED <<sideVars, cacheVars, clockVars, pc, timeout, timedOut, timerArmed,
                   listening, exec, tio, run>>

(* ---------------- the clock ---------------- *)
\* Date.now() moves on by d milliseconds.
Tick(d) ==
    /\ ticks < MaxTicks
    /\ ticks' = ticks + 1
    /\ now' = now + d
    /\ UNCHANGED <<sideVars, cacheVars, runningExecutions, pc, signalAborted, timeout,
                   requestVars, exec, tio, run, obs>>

TickSteps == {1, RUN_URL_REFRESH_MS - 1}

Next ==
    \/ \E i \in Invocations, l \in FewLanguages \cup {NoLanguage} :
            StartRunTestCase(i, l, "undefined")
    \/ \E i \in Invocations : ReadFileFails(i)
    \/ \E i \in Invocations, t \in TimeoutPrefs : CallRunOnTio(i, t)
    \/ \E i \in Invocations, ok \in BOOLEAN, m \in BOOLEAN : LandingResponse(i, ok, m)
    \/ \E i \in Invocations, ok \in BOOLEAN, u \in Endpoints \cup {"null"} :
            ScriptResponse(i, ok, u)
    \/ \E i \in Invocations : ExecuteRequest(i)
    \/ \E i \in Invocations, ok \in BOOLEAN : PostResponse(i, ok)
    \/ \E i \in Invocations : NetworkError(i)
    \/ \E i \in Invocations, r \in ServerReplies : BodyRead(i, r)
    \/ \E i \in Invocations : AbortHandled(i)
    \/ \E i \in Invocations : TimerFires(i)
    \/ KillRunning
    \/ \E d \in TickSteps : Tick(d)

Spec == Init /\ [][Next]_vars

(* ---------------- one invocation, every kind of timeout ---------------- *)
\* A single runTestCase invocation, with getTimeOutPref() ranging over
\* small, boundary, large and non-finite values.
WideTimeoutPrefs ==
    {Fin(0 - 1), Fin(0), Fin(1), Fin(MIN_TIMEOUT_MS - 1), Fin(MIN_TIMEOUT_MS),
     Fin(MIN_TIMEOUT_MS + 1), Fin(3 * MIN_TIMEOUT_MS), NaN, PosInf, NegInf}

NextSingle ==
    \/ \E l \in Languages \cup {NoLanguage}, o \in WideOverrides :
            StartRunTestCase(1, l, o)
    \/ ReadFileFails(1)
    \/ \E t \in WideTimeoutPrefs : CallRunOnTio(1, t)
    \/ \E ok \in BOOLEAN, m \in BOOLEAN : LandingResponse(1, ok, m)
    \/ \E ok \in BOOLEAN, u \in Endpoints \cup {"null"} : ScriptResponse(1, ok, u)
    \/ ExecuteRequest(1)
    \/ \E ok \in BOOLEAN : PostResponse(1, ok)
    \/ NetworkError(1)
    \/ \E r \in ServerReplies : BodyRead(1, r)
    \/ AbortHandled(1)
    \/ TimerFires(1)
    \/ KillRunning
    \/ \E d \in TickSteps : Tick(d)

SpecSingle == Init /\ [][NextSingle]_vars

\* The same with the event loop running what is ready: a timer that is
\* armed fires, and the rejection of an aborted fetch is delivered.  Nothing
\* is assumed of the server.
SpecSingleFair ==
    /\ SpecSingle
    /\ WF_vars(TimerFires(1))
    /\ WF_vars(AbortHandled(1))

(* ---------------- run all ---------------- *)
\* problem.tests: test case k is executed by invocation k.
NumTests == NumInvocations

\* The run-all command up to its first await: detect the language
\* (NoLanguage stands for getLanguage throwing), give up when there is no
\* tio language either, compile when a language was detected.
RunAll(language, tioLanguage) ==
    /\ runAll.pc = "idle"
    /\ runAll' =
         IF language = NoLanguage /\ Falsy(tioLanguage)
         THEN [runAll EXCEPT !.pc = "done", !.ended = "noLanguage",
                             !.language = language, !.tioLanguage = tioLanguage]
         ELSE [runAll EXCEPT !.pc = IF language # NoLanguage THEN "compiling"
                                                              ELSE "loop",
                             !.language = language, !.tioLanguage = tioLanguage]
    /\ UNCHANGED <<programVars, codecVars>>

\* await compileFile(problem.srcPath) resolves.
CompileFileReturns(didCompile) ==
    /\ runAll.pc = "compiling"
    /\ runAll' = IF didCompile
                 THEN [runAll EXCEPT !.pc = "loop"]
                 ELSE [runAll EXCEPT !.pc = "done", !.ended = "compileFailed"]
    /\ UNCHANGED <<programVars, codecVars>>

\* One turn of the for loop: post 'running' and enter runSingleAndSave, up
\* to its await on the editor; after the last test case, finish.
RunAllLoop ==
    /\ runAll.pc = "loop"
    /\ runAll' =
         IF runAll.index > NumTests
         THEN [runAll EXCEPT !.pc = "done", !.ended = "finished"]
         ELSE IF runAll.language = NoLanguage /\ Falsy(runAll.tioLanguage)
         THEN [runAll EXCEPT !.running = Append(@, runAll.index),
                             !.index = @ + 1]
         ELSE [runAll EXCEPT !.running = Append(@, runAll.index),
                             !.pc = "opening"]
    /\ UNCHANGED <<programVars, codecVars>>

\* The editor awaits of runSingleAndSave reject: run-all rejects.
EditorFails ==
    /\ runAll.pc = "opening"
    /\ runAll' = [runAll EXCEPT !.pc = "failed", !.ended = "rejected"]
    /\ UNCHANGED <<programVars, codecVars>>

\* A variant that does not wait for runTestCase before the next turn.
EditorSavedNoAwait ==
    /\ runAll.pc = "opening"
    /\ RunTestCaseBegins(runAll.index, runAll.language, runAll.tioLanguage)
    /\ runAll' = [runAll EXCEPT !.pc = "loop", !.index = @ + 1,
                                !.called = @ \cup {runAll.index}]
    /\ UNCHANGED codecVars

\* The editor awaits resolve: saveProblem, then runTestCase is called and
\* awaited (skipCompile is true in run-all).
EditorSaved ==
    /\ runAll.pc = "opening"
    /\ RunTestCaseBegins(runAll.index, runAll.language, runAll.tioLanguage)
    /\ runAll' = [runAll EXCEPT !.pc = "runTestCase",
                                !.called = @ \cup {runAll.index}]
    /\ UNCHANGED codecVars

\* A variant that looks at the exit code only.
DidErrorCodeOnly(r, ignoreSTDERROR) == r.code # <<>> /\ r.code[1] # 0

\* didError of runSingleAndSave.
DidError(r, ignoreSTDERROR) ==
    \/ (r.code # <<>> /\ r.code[1] # 0)
    \/ r.signal # "null"
    \/ (~ignoreSTDERROR /\ r.stderr # "")

\* runTestCase returned: judge, post 'run-single-result', next turn.
RunSingleJudges(ignoreSTDERROR, isResultCorrect) ==
    /\ runAll.pc = "runTestCase"
    /\ pc[runAll.index] = "returned"
    /\ LET r == run[runAll.index]
           didError == DidError(r, ignoreSTDERROR)
           pass == IF didError THEN FALSE ELSE isResultCorrect
       IN runAll' = [runAll EXCEPT
                        !.results = Append(@, [id |-> runAll.index, pass |-> pass,
                                               compared |-> ~didError]),
                        !.index = @ + 1,
                        !.pc = "loop"]
    /\ UNCHANGED <<programVars, codecVars>>

\* runTestCase threw (mapLanguageToTio): runSingleAndSave and run-all reject.
RunSingleRejects ==
    /\ runAll.pc = "runTestCase"
    /\ pc[runAll.index] = "threw"
    /\ runAll' = [runAll EXCEPT !.pc = "failed", !.ended = "rejected"]
    /\ UNCHANGED <<programVars, codecVars>>

NextRunAll ==
    \/ \E l \in Languages \cup {NoLanguage}, o \in Overrides : RunAll(l, o)
    \/ \E c \in BOOLEAN : CompileFileReturns(c)
    \/ RunAllLoop
    \/ EditorFails
    \/ EditorSaved
    \/ \E g \in BOOLEAN, c \in BOOLEAN : RunSingleJudges(g, c)
    \/ RunSingleRejects
    \/ \E i \in Invocations : ReadFileFails(i)
    \/ \E i \in Invocations, t \in TimeoutPrefs : CallRunOnTio(i, t)
    \/ \E i \in Invocations, ok \in BOOLEAN, m \in BOOLEAN : LandingResponse(i, ok, m)
    \/ \E i \in Invocations, ok \in BOOLEAN, u \in Endpoints \cup {"null"} :
            ScriptResponse(i, ok, u)
    \/ \E i \in Invocations : ExecuteRequest(i)
    \/ \E i \in Invocations, ok \in BOOLEAN : PostResponse(i, ok)
    \/ \E i \in Invocations : NetworkError(i)
    \/ \E i \in Invocations, r \in ServerReplies : BodyRead(i, r)
    \/ \E i \in Invocations : AbortHandled(i)
    \/ \E i \in Invocations : TimerFires(i)
    \/ KillRunning
    \/ \E d \in TickSteps : Tick(d)

SpecRunAll == Init /\ [][NextRunAll]_vars

(* ---------------- the response decoder (runOnTio) ---------------- *)
\* Text is a sequence of one-character strings.
DELIMITER_LENGTH == 16
Digits == {"0", "1", "2", "3", "4", "5", "6", "7", "8", "9"}
DigitChars == <<"0", "1", "2", "3", "4", "5", "6", "7", "8", "9">>
NumberChars == Digits \cup {"."}
DigitValue(c) == (CHOOSE k \in 1..10 : DigitChars[k] = c) - 1

\* The literal parts of DEBUG_REGEX.
RealTimeLabel == <<"R", "e", "a", "l", " ", "t", "i", "m", "e", ":", " ">>
UserTimeLabel == <<"U", "s", "e", "r", " ", "t", "i", "m", "e", ":", " ">>
SysTimeLabel == <<"S", "y", "s", ".", " ", "t", "i", "m", "e", ":", " ">>
CpuShareLabel == <<"C", "P", "U", " ", "s", "h", "a", "r", "e", ":", " ">>
ExitCodeLabel == <<"E", "x", "i", "t", " ", "c", "o", "d", "e", ":", " ">>
SecondsEnd == <<" ", "s", "\n">>
PercentEnd == <<" ", "%", "\n">>

Min(a, b) == IF a < b THEN a ELSE b
\* String.prototype.substring(0, n) and substring(n).
Take(s, n) == SubSeq(s, 1, Min(n, Len(s)))
Drop(s, n) == SubSeq(s, Min(n, Len(s)) + 1, Len(s))
ChopEnd(s, n) == SubSeq(s, 1, Len(s) - n)
EndsWith(s, lit) ==
    Len(s) >= Len(lit) /\ SubSeq(s, Len(s) - Len(lit) + 1, Len(s)) = lit

\* String.prototype.split with a string separator: the pieces between the
\* non-overlapping occurrences of d, found left to right; an empty separator
\* splits into single characters.
\* The places at or after start where d occurs in s.
Occurrences(s, d, start) ==
    {q \in start..(Len(s) - Len(d) + 1) : SubSeq(s, q, q + Len(d) - 1) = d}
RECURSIVE SplitFrom(_, _, _)
SplitFrom(s, d, start) ==
    LET found == Occurrences(s, d, start) IN
    IF found = {} THEN <<SubSeq(s, start, Len(s))>>
    ELSE LET q == CHOOSE x \in found : \A y \in found : x <= y
         IN <<SubSeq(s, start, q - 1)>> \o SplitFrom(s, d, q + Len(d))
Split(s, d) ==
    IF d = <<>> THEN [k \in 1..Len(s) |-> <<s[k]>>] ELSE SplitFrom(s, d, 1)

\* The length of the longest suffix (prefix) of s made of characters of cs.
RECURSIVE TrailingRun(_, _)
TrailingRun(s, cs) ==
    IF s # <<>> /\ s[Len(s)] \in cs THEN 1 + TrailingRun(ChopEnd(s, 1), cs) ELSE 0
RECURSIVE LeadingRun(_, _)
LeadingRun(s, cs) ==
    IF s # <<>> /\ s[1] \in cs THEN 1 + LeadingRun(Drop(s, 1), cs) ELSE 0

NoLine == [ok |-> FALSE, rest |-> <<>>, value |-> <<>>]

\* A variant that takes any text of the label's length for the label.
MatchLineAnyLabel(s, label, cs, end) ==
    IF ~EndsWith(s, end) THEN NoLine
    ELSE LET a == ChopEnd(s, Len(end))
             n == TrailingRun(a, cs)
             b == ChopEnd(a, n)
         IN IF n = 0 \/ Len(b) < Len(label) THEN NoLine
            ELSE [ok |-> TRUE, rest |-> ChopEnd(b, Len(label)),
                  value |-> SubSeq(a, Len(a) - n + 1, Len(a))]

\* One line of DEBUG_REGEX matched at the end of s: label, a run of cs, end.
\* Every label ends with a blank, so the run is the longest one.
MatchLine(s, label, cs, end) ==
    IF ~EndsWith(s, end) THEN NoLine
    ELSE LET a == ChopEnd(s, Len(end))
             n == TrailingRun(a, cs)
             b == ChopEnd(a, n)
         IN IF n = 0 \/ ~EndsWith(b, label) THEN NoLine
            ELSE [ok |-> TRUE, rest |-> ChopEnd(b, Len(label)),
                  value |-> SubSeq(a, Len(a) - n + 1, Len(a))]

NoMatch ==
    [ok |-> FALSE, debug |-> <<>>, realTime |-> <<>>, userTime |-> <<>>,
     sysTime |-> <<>>, CPUshare |-> <<>>, exitCode |-> <<>>]

\* sections[1].match(DEBUG_REGEX): the pattern ends at the end of the text
\* and [\s\S]* takes everything in front of the five lines.
MatchDebug(s) ==
    LET e == MatchLine(s, ExitCodeLabel, Digits, <<>>)
        c == MatchLine(e.rest, CpuShareLabel, NumberChars, PercentEnd)
        y == MatchLine(c.rest, SysTimeLabel, NumberChars, SecondsEnd)
        u == MatchLine(y.rest, UserTimeLabel, NumberChars, SecondsEnd)
        r == MatchLine(u.rest, RealTimeLabel, NumberChars, SecondsEnd)
    IN IF e.ok /\ c.ok /\ y.ok /\ u.ok /\ r.ok
       THEN [ok |-> TRUE, debug |-> r.rest, realTime |-> r.value,
             userTime |-> u.value, sysTime |-> y.value, CPUshare |-> c.value,
             exitCode |-> e.value]
       ELSE NoMatch

\* Number(text) for a run of digits.
RECURSIVE ToNat(_)
ToNat(ds) ==
    IF ds = <<>> THEN 0 ELSE 10 * ToNat(ChopEnd(ds, 1)) + DigitValue(ds[Len(ds)])

\* The first three decimals as milliseconds.
Millis(frac) ==
    LET d(k) == IF k <= Len(frac) THEN DigitValue(frac[k]) ELSE 0
    IN 100 * d(1) + 10 * d(2) + d(3)

\* parseFloat(text) for a run of digits and dots: the digits, then at most
\* one dot and its digits; NaN when there is no digit to read.
ParseFloat(s) ==
    LET i == LeadingRun(s, Digits)
        afterDot == IF i < Len(s) /\ s[i + 1] = "." THEN Drop(s, i + 1) ELSE <<>>
        f == LeadingRun(afterDot, Digits)
    IN IF i = 0 /\ f = 0 THEN NotANumber
       ELSE [k |-> "fin", s |-> ToNat(Take(s, i)), ms |-> Millis(Take(afterDot, f))]

DecodeError(message) == [NoDecoded EXCEPT !.kind = "Error", !.message = message]

\* A variant that prefers the debug text.
OutputOfDebugFirst(section0, debug) == IF debug # <<>> THEN debug ELSE section0

\* sections[0] || debug
OutputOf(section0, debug) == IF section0 # <<>> THEN section0 ELSE debug

\* runOnTio after gunzipSync(buffer).toString().
DecodeContent(content) ==
    LET delimiter == Take(content, DELIMITER_LENGTH)
        sections == Split(Drop(content, DELIMITER_LENGTH), delimiter)
    IN IF Len(sections) < 2
       THEN DecodeError("Unexpected response format received from tio.run")
       ELSE LET match == MatchDebug(sections[2])
            IN IF ~match.ok
               THEN DecodeError("Unable to parse tio.run diagnostics output")
               ELSE [kind |-> "result", message |-> "",
                     output |-> OutputOf(sections[1], match.debug),
                     timedOut |-> FALSE,
                     realTime |-> ParseFloat(match.realTime),
                     userTime |-> ParseFloat(match.userTime),
                     sysTime |-> ParseFloat(match.sysTime),
                     CPUshare |-> ParseFloat(match.CPUshare),
                     exitCode |-> ToNat(match.exitCode)]

Decode ==
    /\ decoder.phase = "content"
    /\ decoder' = [decoder EXCEPT !.phase = "decoded",
                                  !.result = DecodeContent(decoder.content)]
    /\ UNCHANGED <<programVars, runAll, encoder>>

(* ---- the responses decoded ---- *)
Delimiters ==
    {<<"0", "1", "2", "3", "4", "5", "6", "7", "8", "9", "a", "b", "c", "d", "e", "f">>,
     <<"z", "z", "z", "z", "z", "z", "z", "z", "z", "z", "z", "z", "z", "z", "z", "z">>}
Hello == <<"h", "e", "l", "l", "o">>
Dbg == <<"d", "b", "g", "\n">>
NewLine == <<"\n">>

\* The figures of a metric block, as text and as the numbers they stand for.
MetricValues ==
    {[name |-> "ok", real |-> <<"0", ".", "1", "2", "3">>, user |-> <<"0", ".", "1">>, sys |-> <<"0">>,
      cpu |-> <<"5", "0", ".", "1", "2">>, exit |-> <<"0">>,
      realValue |-> [k |-> "fin", s |-> 0, ms |-> 123],
      userValue |-> [k |-> "fin", s |-> 0, ms |-> 100],
      sysValue |-> [k |-> "fin", s |-> 0, ms |-> 0],
      cpuValue |-> [k |-> "fin", s |-> 50, ms |-> 120], exitValue |-> 0],
     [name |-> "failed", real |-> <<"1", "2">>, user |-> <<"1", ".">>, sys |-> <<".", "5">>,
      cpu |-> <<"9", "9">>, exit |-> <<"1", "3", "9">>,
      realValue |-> [k |-> "fin", s |-> 12, ms |-> 0],
      userValue |-> [k |-> "fin", s |-> 1, ms |-> 0],
      sysValue |-> [k |-> "fin", s |-> 0, ms |-> 500],
      cpuValue |-> [k |-> "fin", s |-> 99, ms |-> 0], exitValue |-> 139],
     [name |-> "odd", real |-> <<"1", ".", "2", ".", "3">>, user |-> <<".">>, sys |-> <<"0", "0", "7">>,
      cpu |-> <<".", ".", "5">>, exit |-> <<"0", "0", "7">>,
      realValue |-> [k |-> "fin", s |-> 1, ms |-> 200],
      userValue |-> NotANumber,
      sysValue |-> [k |-> "fin", s |-> 7, ms |-> 0],
      cpuValue |-> NotANumber, exitValue |-> 7]}
OtherMetrics == CHOOSE m \in MetricValues : m.name = "failed"

Line(label, value, end) == label \o value \o end
MetricLines(m) ==
    Line(RealTimeLabel, m.real, SecondsEnd) \o Line(UserTimeLabel, m.user, SecondsEnd)
      \o Line(SysTimeLabel, m.sys, SecondsEnd) \o Line(CpuShareLabel, m.cpu, PercentEnd)
      \o Line(ExitCodeLabel, m.exit, <<>>)

\* Texts that are not the five metric lines at the end of the segment.
BrokenLines(m) ==
    {MetricLines(m) \o NewLine,
     MetricLines(m) \o Hello,
     MetricLines([m EXCEPT !.exit = <<>>]),
     MetricLines([m EXCEPT !.exit = <<"-", "1">>]),
     MetricLines([m EXCEPT !.real = <<"1", "x">>]),
     MetricLines([m EXCEPT !.cpu = <<>>]),
     Line(UserTimeLabel, m.user, SecondsEnd) \o Line(RealTimeLabel, m.real, SecondsEnd)
       \o Line(SysTimeLabel, m.sys, SecondsEnd) \o Line(CpuShareLabel, m.cpu, PercentEnd)
       \o Line(ExitCodeLabel, m.exit, <<>>),
     Line(RealTimeLabel, m.real, SecondsEnd) \o Line(UserTimeLabel, m.user, SecondsEnd)
       \o Line(SysTimeLabel, m.sys, SecondsEnd) \o Line(ExitCodeLabel, m.exit, <<>>),
     Line(RealTimeLabel, m.real, SecondsEnd) \o Line(UserTimeLabel, m.user, SecondsEnd)
       \o Line(SysTimeLabel, m.sys, SecondsEnd) \o Line(CpuShareLabel, m.cpu, PercentEnd),
     Line(RealTimeLabel, m.real, PercentEnd) \o Line(UserTimeLabel, m.user, SecondsEnd)
       \o Line(SysTimeLabel, m.sys, SecondsEnd) \o Line(CpuShareLabel, m.cpu, PercentEnd)
       \o Line(ExitCodeLabel, m.exit, <<>>),
     <<>>,
     Hello}

Segment0s == {<<>>, Hello, NewLine, MetricLines(OtherMetrics)}
DebugTexts == {<<>>, Dbg, MetricLines(OtherMetrics) \o NewLine}
\* What follows segment 1: nothing, a closing delimiter, a third segment.
Followers(d) == {<<>>, d, d \o Hello, d \o MetricLines(OtherMetrics)}

\* Responses of the form delimiter, segment 0, delimiter, segment 1, rest.
FullResponsesWith(d) ==
    {[phase |-> "content",
      content |-> d \o s0 \o d \o g \o MetricLines(m) \o f,
      parts |-> [form |-> "full", delimiter |-> d, seg0 |-> s0, dbg |-> g,
                 good |-> TRUE, metrics |-> m.name],
      result |-> NoDecoded] :
        s0 \in Segment0s, g \in DebugTexts, m \in MetricValues,
        f \in Followers(d)}
FullResponses == UNION {FullResponsesWith(d) : d \in Delimiters}
\* The same form with a segment 1 that does not end with the metric lines.
BrokenResponsesWith(d) ==
    {[phase |-> "content",
      content |-> d \o s0 \o d \o g \o b \o f,
      parts |-> [form |-> "full", delimiter |-> d, seg0 |-> s0, dbg |-> g,
                 good |-> FALSE, metrics |-> "none"],
      result |-> NoDecoded] :
        s0 \in {<<>>, MetricLines(OtherMetrics)}, g \in {Dbg},
        b \in BrokenLines(OtherMetrics),
        f \in {<<>>, d \o MetricLines(OtherMetrics)}}
BrokenResponses == UNION {BrokenResponsesWith(d) : d \in Delimiters}
\* Responses with less than two segments.
ShortResponses ==
    {[phase |-> "content", content |-> c,
      parts |-> [NoParts EXCEPT !.form = "short"],
      result |-> NoDecoded] :
        c \in {<<>>, Hello, MetricLines(OtherMetrics),
               Dbg \o MetricLines(OtherMetrics)}
              \cup {Take(d, n) : d \in Delimiters, n \in {15, 16}}
              \cup {d \o x : d \in Delimiters,
                             x \in {Hello, MetricLines(OtherMetrics)}}
              \cup {d \o Take(d, 15) \o MetricLines(OtherMetrics) :
                        d \in Delimiters}}
Responses == FullResponses \cup BrokenResponses \cup ShortResponses

InitDecode ==
    /\ InitProgram
    /\ runAll = NoRunAll
    /\ encoder = NoEncoding
    /\ decoder \in Responses

NextDecode == Decode

SpecDecode == InitDecode /\ [][NextDecode]_vars

(* ---------------- the request encoder (buildRequestBody) ---------------- *)
\* The character \0, and code units outside ASCII by their code.
NUL == "NUL"
HighSurrogates == {"U+D83D"}
LowSurrogates == {"U+DE00"}
REPLACEMENT == <<"EF", "BF", "BD">>

\* UTF-8 of one code unit that is not a surrogate.
UnitBytes(c) ==
    CASE c = "U+00E9" -> <<"C3", "A9">>
      [] c = "U+20AC" -> <<"E2", "82", "AC">>
      [] OTHER -> <<c>>

\* UTF-8 of a surrogate pair.
PairBytes(high, low) == <<"F0", "9F", "98", "80">>

\* The bytes Buffer writes for the code unit at place k of s: a high
\* surrogate and the low one after it make one 4-byte character, a
\* surrogate on its own becomes U+FFFD.
BytesAt(s, k) ==
    CASE s[k] \in HighSurrogates /\ k < Len(s) /\ s[k + 1] \in LowSurrogates ->
            PairBytes(s[k], s[k + 1])
      [] s[k] \in LowSurrogates /\ k > 1 /\ s[k - 1] \in HighSurrogates -> <<>>
      [] s[k] \in HighSurrogates \cup LowSurrogates -> REPLACEMENT
      [] OTHER -> UnitBytes(s[k])

RECURSIVE Concat(_, _, _)
Concat(parts, lo, hi) ==
    IF lo > hi THEN <<>>
    ELSE IF lo = hi THEN parts[lo]
    ELSE LET mid == (lo + hi) \div 2
         IN Concat(parts, lo, mid) \o Concat(parts, mid + 1, hi)
\* Array.prototype.join('')
Join(parts) == Concat(parts, 1, Len(parts))

\* Buffer.from(text, 'utf8')
Utf8(s) == Join([k \in 1..Len(s) |-> BytesAt(s, k)])

\* `${n}` for a number that is not negative.
RECURSIVE ToDecimal(_)
ToDecimal(n) ==
    IF n < 10 THEN <<DigitChars[n + 1]>>
    ELSE ToDecimal(n \div 10) \o <<DigitChars[(n % 10) + 1]>>

\* A variant that counts characters.
encodeLengthInCharacters(value) == Len(value)

\* Buffer.byteLength(value, 'utf8')
encodeLength(value) == Len(Utf8(value))

encodeField(label, value) ==
    label \o <<NUL>> \o ToDecimal(encodeLength(value)) \o <<NUL>> \o value

\* A variant that sends no options field.
buildRequestBodyNoOptions(code, options) ==
    LET cflags == Join([k \in 1..Len(options.cflags) |-> options.cflags[k] \o <<NUL>>])
        argv == Join([k \in 1..Len(options.argv) |-> options.argv[k] \o <<NUL>>])
        payload ==
            <<"V", "a", "r", "g", "s">> \o <<NUL>> \o ToDecimal(Len(options.argv)) \o <<NUL>> \o argv
              \o <<"V", "l", "a", "n", "g">> \o <<NUL, "1", NUL>> \o options.language \o <<NUL>>
              \o <<"V", "T", "I", "O", "_", "C", "F", "L", "A", "G", "S">> \o <<NUL>> \o ToDecimal(Len(options.cflags))
              \o <<NUL>> \o cflags
              \o encodeField(<<"F", ".", "c", "o", "d", "e", ".", "t", "i", "o">>, code)
              \o encodeField(<<"F", ".", "i", "n", "p", "u", "t", ".", "t", "i", "o">>, options.stdin)
              \o <<"R">>
    IN Utf8(payload)

\* buildRequestBody: the bytes handed to deflateRawSync.
buildRequestBody(code, options) ==
    LET cflags == Join([k \in 1..Len(options.cflags) |-> options.cflags[k] \o <<NUL>>])
        argv == Join([k \in 1..Len(options.argv) |-> options.argv[k] \o <<NUL>>])
        payload ==
            <<"V", "a", "r", "g", "s">> \o <<NUL>> \o ToDecimal(Len(options.argv)) \o <<NUL>> \o argv
              \o <<"V", "l", "a", "n", "g">> \o <<NUL, "1", NUL>> \o options.language \o <<NUL>>
              \o <<"V", "T", "I", "O", "_", "C", "F", "L", "A", "G", "S">> \o <<NUL>> \o ToDecimal(Len(options.cflags))
              \o <<NUL>> \o cflags
              \o <<"V", "T", "I", "O", "_", "O", "P", "T", "I", "O", "N", "S">> \o <<NUL, "0", NUL>>
              \o encodeField(<<"F", ".", "c", "o", "d", "e", ".", "t", "i", "o">>, code)
              \o encodeField(<<"F", ".", "i", "n", "p", "u", "t", ".", "t", "i", "o">>, options.stdin)
              \o <<"R">>
    IN Utf8(payload)

Encode ==
    /\ encoder.phase = "request"
    /\ encoder' =
         [encoder EXCEPT
            !.phase = "encoded",
            !.payload =
                buildRequestBody(encoder.code.units,
                    [language |-> encoder.language,
                     stdin |-> encoder.stdin.units,
                     argv |-> [k \in 1..Len(encoder.argv) |-> encoder.argv[k].units],
                     cflags |-> [k \in 1..Len(encoder.cflags) |->
                                    encoder.cflags[k].units]])]
    /\ UNCHANGED <<programVars, runAll, decoder>>

(* ---- the requests encoded ---- *)
Texts ==
    {EmptyText,
     [units |-> <<"a">>, bytes |-> <<"a">>],
     [units |-> <<"R">>, bytes |-> <<"R">>],
     [units |-> <<"U+20AC">>, bytes |-> <<"E2", "82", "AC">>],
     [units |-> <<"U+D83D", "U+DE00">>, bytes |-> <<"F0", "9F", "98", "80">>],
     [units |-> <<"U+DE00", "U+D83D">>,
      bytes |-> <<"EF", "BF", "BD", "EF", "BF", "BD">>],
     [units |-> <<"a", NUL, "U+00E9", "\n", "U+20AC", "U+20AC", "U+20AC">>,
      bytes |-> <<"a", NUL, "C3", "A9", "\n", "E2", "82", "AC", "E2", "82", "AC",
                  "E2", "82", "AC">>]}
ArgX == [units |-> <<"-", "x">>, bytes |-> <<"-", "x">>]
ArgEuro == [units |-> <<"U+20AC", "1">>, bytes |-> <<"E2", "82", "AC", "1">>]
FlagO2 == [units |-> <<"-", "O", "2">>, bytes |-> <<"-", "O", "2">>]
FlagEmpty == EmptyText
ArgLists == {<<>>, <<ArgX>>, <<ArgEuro, ArgX>>}
FlagLists == {<<>>, <<FlagO2>>, <<FlagEmpty, FlagO2>>}
LanguageTokens == {<<"r", "u", "b", "y">>, <<"p", "y", "t", "h", "o", "n", "3">>}

Requests ==
    {[phase |-> "request", code |-> c, stdin |-> i, argv |-> a, cflags |-> f,
      language |-> l, payload |-> <<>>] :
        c \in Texts, i \in Texts, a \in ArgLists, f \in FlagLists,
        l \in LanguageTokens}

InitEncode ==
    /\ InitProgram
    /\ runAll = NoRunAll
    /\ decoder = NoDecoding
    /\ encoder \in Requests

NextEncode == Encode

SpecEncode == InitEncode /\ [][NextEncode]_vars

(* ======================= the claims ======================= *)
Returned(i) == pc[i] = "returned"

\* The invocation made its runOnTio call while no other call was inside
\* runOnTio, and no other call entered before it.
Sequential(i) == ~obs[i].overlapped

\* How the timer of executeRequest must be set for a requested timeout:
\* <<delay>>, or << >> for no timer.
FlooredDelay(t) ==
    IF t.k = "fin" THEN <<IF t.v < MIN_TIMEOUT_MS THEN MIN_TIMEOUT_MS ELSE t.v>>
    ELSE IF t.k = "ninf" THEN <<MIN_TIMEOUT_MS>>
    ELSE <<>>

C2_PreAbortedNoFetch ==
    \A i \in Invocations :
        obs[i].preAborted =>
            /\ obs[i].landingGets = 0
            /\ obs[i].scriptGets = 0
            /\ obs[i].posts = 0
            /\ (Returned(i) => tio[i].kind = "ExecutionAbortedError")

\* C3: when the timer fires first while the POST is in flight, the inner
\* controller is aborted and executeRequest returns the timed-out marker
\* (runOnTio returns a result, it does not reject), also when the external
\* signal is aborted afterwards.
C3_TimerFirstIsTimeout ==
    \A i \in Invocations :
        obs[i].firstAbort = "timer" =>
            /\ controllerAborted[i]
            /\ (Returned(i) => (exec[i] = "marker" /\ tio[i].kind = "result"
                                /\ tio[i].timedOut))

C3_Witness ==
    \E i \in Invocations :
        /\ obs[i].firstAbort = "timer"
        /\ signalAborted[i]
        /\ Returned(i)
        /\ exec[i] = "marker"

\* C4: at every step in which executeRequest raises ExecutionAbortedError,
\* the external signal is aborted and timedOut is false.
C4_AbortedOnlyByExternalSignal ==
    [][\A i \in Invocations :
        (exec[i] = "none" /\ exec'[i] = "ExecutionAbortedError")
            => (signalAborted'[i] /\ ~timedOut'[i])]_vars

C4_Witness ==
    \E i \in Invocations :
        /\ exec[i] = "ExecutionAbortedError"
        /\ obs[i].posts = 1
        /\ signalAborted[i]
        /\ ~timedOut[i]

\* C5: a result returned by runOnTio is either decoded from the answer
\* (timedOut false, the exit code and CPU share the server reported) or the
\* synthetic timeout result (timedOut true, exit code 124, CPU share 0).
C5_ResultIsDecodedOrTimeout ==
    \A i \in Invocations :
        tio[i].kind = "result" =>
            \/ /\ ~tio[i].timedOut
               /\ exec[i] = "buffer"
               /\ obs[i].reply.wellFormed
               /\ tio[i].exitCode = obs[i].reply.exitCode
               /\ tio[i].CPUshare = obs[i].reply.CPUshare
               /\ tio[i].output = "server output"
            \/ /\ tio[i].timedOut
               /\ exec[i] = "marker"
               /\ tio[i].exitCode = TIMEOUT_EXIT_CODE
               /\ tio[i].CPUshare = 0
               /\ tio[i].output = "Request timed out"

C5_Witness ==
    \E i, j \in Invocations :
        /\ tio[i].kind = "result" /\ tio[i].timedOut
        /\ tio[j].kind = "result" /\ ~tio[j].timedOut
        /\ tio[j].exitCode = TIMEOUT_EXIT_CODE

\* C6 as stated: every executeRequest arms a timer, for max(500, requested).
C6_TimerAlwaysArmed ==
    \A i \in Invocations :
        obs[i].executes = 1 =>
            /\ obs[i].timerDelay # <<>>
            /\ (timeout[i].k = "fin" => obs[i].timerDelay = FlooredDelay(timeout[i]))

\* C6 amended: for a finite requested timeout and for -Infinity the timer is
\* set with delay max(500, requested); for NaN and +Infinity no timer is set.
C6_TimerArmedWhenFinite ==
    \A i \in Invocations :
        obs[i].executes = 1 => obs[i].timerDelay = FlooredDelay(timeout[i])

C6_Witness ==
    \E i \in Invocations :
        /\ obs[i].executes = 1
        /\ timeout[i] = Fin(1)
        /\ obs[i].timerDelay = <<MIN_TIMEOUT_MS>>
        /\ obs[i].posts = 1

\* C7 as stated: in a sequence of sequential calls, a call inside the
\* refresh window makes no discovery GET and posts to the cached endpoint,
\* and a call that finds the cache expired makes exactly one GET of the
\* landing page and one GET of the script.
C7_OneReresolutionAfterExpiry ==
    \A i \in Invocations :
        (Sequential(i) /\ Returned(i)) =>
            /\ obs[i].cacheAtCheck = "fresh" =>
                    /\ obs[i].landingGets = 0 /\ obs[i].scriptGets = 0
                    /\ (obs[i].posts = 1 => obs[i].postUrl = obs[i].urlAtCheck)
            /\ (obs[i].cacheAtCheck = "stale" /\ obs[i].urlAtCheck # "null") =>
                    (obs[i].landingGets = 1 /\ obs[i].scriptGets = 1)

\* C7 amended: the call that finds the cache expired (or empty) makes one GET
\* of the landing page and at most one GET of the script, exactly one when
\* the resolution goes on to executeRequest; and the cache is written only
\* by a call that found it stale, never by the passing of time.
C7_ReuseInsideWindowLazyOutside ==
    /\ [](\A i \in Invocations :
            (Sequential(i) /\ Returned(i)) =>
                /\ obs[i].cacheAtCheck = "fresh" =>
                        /\ obs[i].landingGets = 0 /\ obs[i].scriptGets = 0
                        /\ (obs[i].posts = 1 => obs[i].postUrl = obs[i].urlAtCheck)
                /\ obs[i].cacheAtCheck = "stale" =>
                        /\ obs[i].landingGets = 1
                        /\ obs[i].scriptGets <= 1
                        /\ (obs[i].executes = 1 => obs[i].scriptGets = 1))
    /\ [][(runUrl' # runUrl \/ nextRefreshAt' # nextRefreshAt) =>
            \E i \in Invocations :
                /\ pc[i] = "fetchScript" /\ pc'[i] = "resolved"
                /\ obs[i].cacheAtCheck = "stale"]_vars

C7_Witness ==
    \E i, j \in Invocations :
        /\ i # j
        /\ Sequential(i) /\ Sequential(j) /\ Returned(i) /\ Returned(j)
        /\ obs[i].cacheAtCheck = "stale" /\ obs[i].urlAtCheck = "null"
        /\ obs[j].cacheAtCheck = "stale" /\ obs[j].urlAtCheck # "null"
        /\ obs[j].landingGets = 1 /\ obs[j].scriptGets = 1 /\ obs[j].posts = 1

\* C8: with overlapping resolutions every POST goes to a non-null endpoint
\* that a completed resolution produced, the cache holds the endpoint and
\* the expiry of the last write, and a call whose two GETs succeeded goes on
\* with a non-null endpoint.
C8_OverlappingResolutionsBenign ==
    /\ \A i \in Invocations :
        /\ obs[i].posts = 1 =>
                (obs[i].postUrl # "null" /\ obs[i].postUrl \in cacheLog.produced)
        /\ pc[i] = "resolved" => runUrl # "null"
        /\ (obs[i].scriptGets = 1 /\ Returned(i) /\ exec[i] = "none") =>
                tio[i].kind = "Error"
    /\ runUrl = cacheLog.url
    /\ nextRefreshAt = cacheLog.expiry
    /\ (cacheLog.by = 0) = (runUrl = "null")

C8_Witness ==
    \E i, j \in Invocations :
        /\ i # j
        /\ obs[i].overlapped /\ obs[j].overlapped
        /\ obs[i].cacheAtCheck = "stale" /\ obs[j].cacheAtCheck = "stale"
        /\ obs[i].scriptGets = 1 /\ obs[j].scriptGets = 1
        /\ obs[i].posts = 1 /\ obs[j].posts = 1
        /\ obs[i].postUrl # obs[j].postUrl
        /\ cacheLog.by = j
        /\ obs[j].postUrl = runUrl

\* C9: a step in which a discovery fetch or its pattern fails ends the
\* invocation with an error: no further GET, the cache as it was, no POST,
\* no result.
C9_ResolutionFailureIsFatal ==
    [][\A i \in Invocations :
        (pc[i] \in {"fetchLanding", "fetchScript"} /\ pc'[i] = "returned") =>
            /\ runUrl' = runUrl /\ nextRefreshAt' = nextRefreshAt
            /\ tio'[i].kind = "Error"
            /\ run'[i].signal = "ERROR"
            /\ exec'[i] = "none"
            /\ obs'[i].posts = 0
            /\ obs'[i].landingGets = 1
            /\ obs'[i].scriptGets = obs[i].scriptGets]_vars

C9_Witness ==
    \E i \in Invocations :
        /\ Returned(i)
        /\ obs[i].landingGets = 1 /\ obs[i].scriptGets = 1
        /\ obs[i].executes = 0
        /\ tio[i].kind = "Error"
        /\ runUrl # "null"

\* C10: an invocation with a service language is registered from its first
\* await on (unless killRunning emptied the registry) and is not in the
\* registry once it has returned; one without is never registered.
C10_RegistryMembership ==
    \A i \in Invocations :
        /\ pc[i] \in {"returned", "idle", "threw"} => i \notin runningExecutions
        /\ pc[i] \in {"readFile", "fetchLanding", "fetchScript", "resolved",
                      "posting", "reading"} =>
                (i \in runningExecutions \/ signalAborted[i])

C10_Witness ==
    \E i, j \in Invocations :
        /\ Returned(i) /\ tio[i].kind = "result" /\ ~signalAborted[i]
        /\ i \notin runningExecutions
        /\ pc[j] = "readFile" /\ j \in runningExecutions

\* C11: a step of killRunning leaves the registry empty and every controller
\* that was registered aborted; the POST of each registered invocation that
\* is in flight is aborted with it.
C11_KillAbortsAllRegistered ==
    [][(pc' = pc /\ runningExecutions' # runningExecutions) =>
        /\ runningExecutions' = {}
        /\ \A i \in runningExecutions :
            /\ signalAborted'[i]
            /\ (InFlight(i) => controllerAborted'[i])]_vars

C11_Witness ==
    \E i, j \in Invocations :
        /\ i # j
        /\ runningExecutions = {}
        /\ InFlight(i) /\ signalAborted[i] /\ controllerAborted[i] /\ ~timedOut[i]
        /\ pc[j] = "fetchLanding" /\ signalAborted[j]

\* C12: one runOnTio call issues at most one POST, one GET of the landing
\* page and one GET of the script, and calls executeRequest at most once.
C12_NoRetries ==
    \A i \in Invocations :
        /\ obs[i].posts <= 1
        /\ obs[i].landingGets <= 1
        /\ obs[i].scriptGets <= 1
        /\ obs[i].executes <= 1
        /\ obs[i].posts <= obs[i].executes
        /\ obs[i].scriptGets <= obs[i].landingGets

C12_Witness ==
    \E i \in Invocations :
        /\ Returned(i)
        /\ exec[i] = "Error"
        /\ obs[i].postStatus = "none"
        /\ obs[i].posts = 1 /\ obs[i].landingGets = 1 /\ obs[i].scriptGets = 1

\* C14: a non-success status of the POST ends executeRequest with an error
\* that is neither the timed-out marker nor ExecutionAbortedError; no body
\* is decoded and runOnTio gives no result.
C14_BadStatusIsTransportError ==
    \A i \in Invocations :
        obs[i].postStatus = "not ok" =>
            /\ Returned(i)
            /\ exec[i] = "Error"
            /\ tio[i].kind = "Error"
            /\ obs[i].reply = NoReply
            /\ run[i].signal = "ERROR"

C14_Witness ==
    \E i \in Invocations :
        /\ obs[i].postStatus = "not ok"
        /\ exec[i] = "Error"
        /\ tio[i].kind = "Error"

\* C20: once executeRequest has ended, its timer is cancelled and its abort
\* listener is removed.
C20_ExitClearsTimerAndListener ==
    \A i \in Invocations :
        exec[i] # "none" => (~timerArmed[i] /\ ~listening[i])

Outstanding(i) == pc[i] \notin {"idle", "returned", "threw"}

\* C19: run-all executes the test cases one by one in list order: the
\* 'running' message and the execution of test case k+1 start only after
\* runSingleAndSave for test case k has completed, so at most one execution
\* is outstanding; when compilation fails, or no language is detected and
\* no tio language is set, no test case is run.
C19_RunAllIsSequential ==
    /\ Cardinality({i \in Invocations : Outstanding(i)}) <= 1
    /\ runAll.running = [k \in 1..Len(runAll.running) |-> k]
    /\ Len(runAll.running) <= Len(runAll.results) + 1
    /\ \A k \in Invocations :
          pc[k] # "idle" =>
            /\ k <= Len(runAll.running)
            /\ Len(runAll.results) >= k - 1
            /\ \A j \in 1..(k - 1) : pc[j] = "returned"
    /\ \A k \in Invocations :
          Outstanding(k) => runAll.index = k /\ runAll.pc = "runTestCase"
    /\ (runAll.pc # "idle" /\ runAll.language = NoLanguage
            /\ runAll.tioLanguage = "undefined") => runAll.ended = "noLanguage"
    /\ runAll.ended \in {"noLanguage", "compileFailed"} =>
          /\ runAll.running = <<>>
          /\ \A i \in Invocations : pc[i] = "idle"

\* The second test case is executing after the first one was judged.
C19_Witness ==
    /\ NumTests >= 2
    /\ pc[1] = "returned"
    /\ InFlight(2)
    /\ runAll.running = <<1, 2>>
    /\ Len(runAll.results) = 1
    /\ runAll.results[1].id = 1

Decoded == decoder.phase = "decoded"
MetricsNamed(name) == CHOOSE m \in MetricValues : m.name = name

\* C15: the decoder produces no partial result: when the text after the
\* 16-character delimiter splits into fewer than two segments, or segment 1
\* does not end with the five metric lines in their order, runOnTio raises
\* an error and returns no result.
C15_MalformedResponseRaises ==
    (Decoded /\ (decoder.parts.form = "short" \/ ~decoder.parts.good)) =>
        /\ decoder.result.kind = "Error"
        /\ decoder.result = DecodeError(decoder.result.message)
        /\ decoder.parts.form = "short" =>
              decoder.result.message
                = "Unexpected response format received from tio.run"
        /\ decoder.parts.form = "full" =>
              decoder.result.message = "Unable to parse tio.run diagnostics output"

\* Segment 0 holds complete metric lines, segment 1 has them followed by a
\* line break: decoding raised the diagnostics error.
C15_Witness ==
    /\ Decoded
    /\ decoder.parts.form = "full"
    /\ ~decoder.parts.good
    /\ decoder.parts.seg0 = MetricLines(OtherMetrics)
    /\ EndsWith(decoder.content, MetricLines(OtherMetrics) \o NewLine)
    /\ decoder.result.kind = "Error"

\* C16: for a well-formed response the output is segment 0 when it is not
\* empty and otherwise the debug text in front of the metric lines of
\* segment 1, and the metric fields are those of segment 1.
C16_OutputIsSegment0OrDebug ==
    (Decoded /\ decoder.parts.form = "full" /\ decoder.parts.good) =>
        LET m == MetricsNamed(decoder.parts.metrics) IN
        /\ decoder.result.kind = "result"
        /\ decoder.result.output =
              IF decoder.parts.seg0 # <<>> THEN decoder.parts.seg0
                                          ELSE decoder.parts.dbg
        /\ decoder.result.realTime = m.realValue
        /\ decoder.result.userTime = m.userValue
        /\ decoder.result.sysTime = m.sysValue
        /\ decoder.result.CPUshare = m.cpuValue
        /\ decoder.result.exitCode = m.exitValue

\* '<delim><delim>dbg\n<metrics>' decoded to the output 'dbg\n'.
C16_Witness ==
    /\ Decoded
    /\ decoder.parts.form = "full"
    /\ decoder.parts.good
    /\ decoder.parts.seg0 = <<>>
    /\ decoder.parts.dbg = Dbg
    /\ decoder.content =
          decoder.parts.delimiter \o decoder.parts.delimiter \o Dbg
            \o MetricLines(MetricsNamed("ok"))
    /\ decoder.result.output = Dbg
    /\ decoder.result.exitCode = 0

(* ---- reading a wire frame back ---- *)
WireArgs == <<"V", "a", "r", "g", "s">>
WireLang == <<"V", "l", "a", "n", "g">>
WireFlags == <<"V", "T", "I", "O", "_", "C", "F", "L", "A", "G", "S">>
WireOptions == <<"V", "T", "I", "O", "_", "O", "P", "T", "I", "O", "N", "S">>
WireCode == <<"F", ".", "c", "o", "d", "e", ".", "t", "i", "o">>
WireInput == <<"F", ".", "i", "n", "p", "u", "t", ".", "t", "i", "o">>
WireEnd == "R"

LiteralAt(b, p, lit) ==
    p >= 1 /\ p + Len(lit) - 1 <= Len(b) /\ SubSeq(b, p, p + Len(lit) - 1) = lit
\* The place of the first NUL at or after p, 0 when there is none.
NulFrom(b, p) ==
    LET z == {q \in p..Len(b) : b[q] = NUL}
    IN IF z = {} THEN 0 ELSE CHOOSE x \in z : \A y \in z : x <= y
IsNumber(v) == v # <<>> /\ \A k \in 1..Len(v) : v[k] \in Digits
NoRead == [ok |-> FALSE, count |-> 0, values |-> <<>>, next |-> 0]

\* n entries, each ended by NUL, from place p.
RECURSIVE ReadEntries(_, _, _)
ReadEntries(b, p, n) ==
    IF n = 0 THEN [ok |-> TRUE, count |-> 0, values |-> <<>>, next |-> p]
    ELSE LET q == NulFrom(b, p) IN
         IF q = 0 THEN NoRead
         ELSE LET r == ReadEntries(b, q + 1, n - 1) IN
              IF ~r.ok THEN NoRead
              ELSE [ok |-> TRUE, count |-> n,
                    values |-> <<SubSeq(b, p, q - 1)>> \o r.values,
                    next |-> r.next]

\* A variable field: name, NUL, count, NUL, the entries.
ReadVariable(b, p, name) ==
    IF ~LiteralAt(b, p, name \o <<NUL>>) THEN NoRead
    ELSE LET from == p + Len(name) + 1
             q == NulFrom(b, from)
         IN IF q = 0 \/ ~IsNumber(SubSeq(b, from, q - 1)) THEN NoRead
            ELSE ReadEntries(b, q + 1, ToNat(SubSeq(b, from, q - 1)))

\* A file field: name, NUL, size in bytes, NUL, that many bytes.
ReadFile(b, p, name) ==
    IF ~LiteralAt(b, p, name \o <<NUL>>) THEN NoRead
    ELSE LET from == p + Len(name) + 1
             q == NulFrom(b, from)
         IN IF q = 0 \/ ~IsNumber(SubSeq(b, from, q - 1)) THEN NoRead
            ELSE LET size == ToNat(SubSeq(b, from, q - 1)) IN
                 IF q + size > Len(b) THEN NoRead
                 ELSE [ok |-> TRUE, count |-> size,
                       values |-> <<SubSeq(b, q + 1, q + size)>>,
                       next |-> q + size + 1]

ParseFrame(b) ==
    LET a == ReadVariable(b, 1, WireArgs)
        l == ReadVariable(b, a.next, WireLang)
        f == ReadVariable(b, l.next, WireFlags)
        o == ReadVariable(b, f.next, WireOptions)
        c == ReadFile(b, o.next, WireCode)
        i == ReadFile(b, c.next, WireInput)
    IN [ok |-> a.ok /\ l.ok /\ f.ok /\ o.ok /\ c.ok /\ i.ok
                 /\ i.next <= Len(b) /\ b[i.next] = WireEnd,
        args |-> a, lang |-> l, cflags |-> f, options |-> o, code |-> c,
        input |-> i, end |-> i.next]

Encoded == encoder.phase = "encoded"
BytesOf(texts) == [k \in 1..Len(texts) |-> texts[k].bytes]

\* C17: in the encoded frame the length prefix of the code field and of the
\* input field equals the UTF-8 byte length of the field's value, not its
\* character count: reading that many bytes gives back the value and ends
\* where the next part of the frame begins.
C17_LengthPrefixIsByteLength ==
    Encoded =>
        LET f == ParseFrame(encoder.payload) IN
        /\ f.ok
        /\ f.code.count = Len(encoder.code.bytes)
        /\ f.code.values = <<encoder.code.bytes>>
        /\ f.input.count = Len(encoder.stdin.bytes)
        /\ f.input.values = <<encoder.stdin.bytes>>

\* A one-character three-byte source text is prefixed with 3 and an empty
\* input with 0.
C17_Witness ==
    /\ Encoded
    /\ encoder.code.units = <<"U+20AC">>
    /\ encoder.stdin = EmptyText
    /\ ParseFrame(encoder.payload).code.count = 3
    /\ ParseFrame(encoder.payload).input.count = 0

\* C18: the uncompressed frame is, in this order, the args field (count,
\* then each argument ended by NUL), the language field (count 1, the
\* token), the compiler-flags field (count, each flag ended by NUL), the
\* options field (count 0, nothing else), the code field, the input field
\* and one terminator byte, with nothing after it.
C18_FrameLayout ==
    Encoded =>
        LET f == ParseFrame(encoder.payload) IN
        /\ f.ok
        /\ f.args.count = Len(encoder.argv)
        /\ f.args.values = BytesOf(encoder.argv)
        /\ f.lang.count = 1
        /\ f.lang.values = <<encoder.language>>
        /\ f.cflags.count = Len(encoder.cflags)
        /\ f.cflags.values = BytesOf(encoder.cflags)
        /\ f.options.count = 0
        /\ f.options.values = <<>>
        /\ f.code.values = <<encoder.code.bytes>>
        /\ f.input.values = <<encoder.stdin.bytes>>
        /\ f.end = Len(encoder.payload)

\* A request with two arguments, two flags and texts outside ASCII was
\* encoded and reads back.
C18_Witness ==
    /\ Encoded
    /\ encoder.argv = <<ArgEuro, ArgX>>
    /\ encoder.cflags = <<FlagEmpty, FlagO2>>
    /\ Len(encoder.code.bytes) >= 10
    /\ encoder.stdin.units = <<"U+D83D", "U+DE00">>
    /\ ParseFrame(encoder.payload).ok
    /\ ParseFrame(encoder.payload).end = Len(encoder.payload)

\* C21: an invocation whose controller is aborted before its execution POST
\* is issued (while the source file is read, or while the discovery fetches
\* are in flight) never issues the POST; when discovery succeeded it ends
\* with ExecutionAbortedError, which runTestCase reports as signal ABORTED.
C21_AbortedBeforePostNeverPosts ==
    [][\A i \in Invocations :
         (signalAborted[i] /\ obs[i].posts = 0) =>
            /\ obs'[i].posts = 0
            /\ pc'[i] \notin {"posting", "reading", "threw"}
            /\ (pc'[i] = "returned" /\ obs'[i].executes > 0) =>
                  /\ tio'[i].kind = "ExecutionAbortedError"
                  /\ run'[i].signal = "ABORTED"
                  /\ run'[i].code = <<>>]_vars

\* Killed while the landing page was being fetched, discovery went on and
\* succeeded, and the invocation ended as aborted without a POST.
C21_Witness ==
    \E i \in Invocations :
        /\ pc[i] = "returned"
        /\ signalAborted[i]
        /\ ~obs[i].preAborted
        /\ obs[i].landingGets = 1
        /\ obs[i].scriptGets = 1
        /\ obs[i].executes = 1
        /\ obs[i].posts = 0
        /\ run[i].signal = "ABORTED"

\* The effective timeout of invocation i is a finite positive number.
FinitePositiveTimeout(i) ==
    LET t == MathMax(Fin(MIN_TIMEOUT_MS), timeout[i])
    IN t.k = "fin" /\ t.v > 0

\* C22: with a finite positive effective timeout and a timer that fires,
\* every executeRequest that has issued its POST finishes, whatever the
\* server does, and the invocation leaves runningExecutions.
C22_PostedRequestFinishes ==
    \A i \in Invocations :
        (InFlight(i) /\ FinitePositiveTimeout(i))
            ~> (pc[i] = "returned" /\ i \notin runningExecutions)

\* The server never answered the POST and the invocation returned the
\* timed-out result.
C22_Witness ==
    /\ pc[1] = "returned"
    /\ FinitePositiveTimeout(1)
    /\ obs[1].posts = 1
    /\ obs[1].postStatus = "none"
    /\ ~signalAborted[1]
    /\ tio[1].kind = "result"
    /\ tio[1].timedOut
    /\ 1 \notin runningExecutions

\* Invocation i has resolved a service language and has not ended yet.
Running(i) ==
    pc[i] \in {"readFile", "fetchLanding", "fetchScript", "resolved", "posting",
               "reading"}

\* C23: once runTestCase has resolved a service language it never throws,
\* and the Run it returns has one of three shapes: success (signal null,
\* code the remote exit code, stderr empty), aborted (signal ABORTED, code
\* null) exactly when the failure was an ExecutionAbortedError, and error
\* (signal ERROR, code null, stderr the error message) for every other
\* failure.
C23_RunHasOneOfThreeShapes ==
    [][\A i \in Invocations :
         (Running(i) /\ ~Running(i)') =>
            LET r == run'[i]
                e == exec'[i]
            IN
            /\ pc'[i] = "returned"
            /\ r.signal \in {"null", "ABORTED", "ERROR"}
            /\ (r.signal = "ABORTED") <=> (e = "ExecutionAbortedError")
            /\ r.signal = "null" =>
                  /\ r.stderr = ""
                  /\ \/ /\ e = "buffer"
                        /\ obs'[i].reply.wellFormed
                        /\ r.code = <<obs'[i].reply.exitCode>>
                     \/ /\ e = "marker"
                        /\ r.code = <<TIMEOUT_EXIT_CODE>>
            /\ r.signal = "ABORTED" =>
                  r.code = <<>> /\ r.stderr = "Execution aborted by user."
            /\ r.signal = "ERROR" =>
                  /\ r.code = <<>>
                  /\ r.stderr = "error message"
                  /\ e \in {"none", "Error", "buffer"}
                  /\ e = "buffer" => ~obs'[i].reply.wellFormed]_vars

\* One invocation has returned the aborted shape and another the success
\* shape with the exit code of the server.
C23_Witness ==
    \E i, j \in Invocations :
        /\ pc[i] = "returned" /\ pc[j] = "returned"
        /\ run[i].signal = "ABORTED" /\ run[i].code = <<>>
        /\ run[j].signal = "null" /\ exec[j] = "buffer"
        /\ run[j].code = <<obs[j].reply.exitCode>>

\* The service tokens an override may name.
OverrideTokens == WideOverrides \ {"undefined", ""}

\* C24: the language mapper is consulted only when no override is given: an
\* override that names a tio language is the token sent, whatever language
\* was detected; with neither an override nor a detected language
\* runTestCase returns a Run with signal ERROR, adds nothing to the registry
\* and causes no network activity; the discovery fetches, when needed,
\* come before the execution POST.
C24_OverrideWinsAndDiscoveryFirst ==
    \A i \in Invocations :
        /\ (pc[i] # "idle" /\ obs[i].override \in OverrideTokens) =>
              /\ obs[i].tioLanguage = obs[i].override
              /\ obs[i].registered
              /\ pc[i] # "threw"
              /\ obs[i].posts > 0 => obs[i].postLanguage = obs[i].override
        /\ (pc[i] # "idle" /\ obs[i].override = "undefined") =>
              obs[i].tioLanguage =
                IF obs[i].language = NoLanguage THEN "undefined"
                ELSE mapLanguageToTio(obs[i].language)
        /\ (pc[i] # "idle" /\ obs[i].override = "undefined"
                /\ obs[i].language = NoLanguage) =>
              /\ pc[i] = "returned"
              /\ run[i].signal = "ERROR"
              /\ ~obs[i].registered
              /\ i \notin runningExecutions
              /\ obs[i].landingGets = 0 /\ obs[i].scriptGets = 0
              /\ obs[i].posts = 0
        /\ pc[i] \in {"readFile", "fetchLanding", "fetchScript"} => obs[i].posts = 0
        /\ obs[i].posts > 0 =>
              /\ obs[i].postUrl # "null"
              /\ obs[i].cacheAtCheck = "stale" =>
                    obs[i].landingGets = 1 /\ obs[i].scriptGets = 1

\* A C++ file run with the override ruby: both discovery fetches were made
\* and the POST carried ruby.
C24_Witness ==
    /\ obs[1].language.name = "cpp"
    /\ obs[1].override = "ruby"
    /\ obs[1].landingGets = 1
    /\ obs[1].scriptGets = 1
    /\ obs[1].posts = 1
    /\ obs[1].postLanguage = "ruby"

\* C25: a run that timed out (exit code 124), was aborted or failed is never
\* judged as passing: the result has pass = false, and stdout is not
\* compared, whenever the run's code is neither null nor 0, its signal is
\* not null, or its stderr is not empty (here whatever the preference on
\* stderr is, since runTestCase leaves stderr empty unless it sets a signal).
C25_FailedRunNeverPasses ==
    \A k \in 1..Len(runAll.results) :
        LET res == runAll.results[k]
            r == run[res.id]
        IN
        /\ pc[res.id] = "returned"
        /\ (\/ r.code \notin {<<>>, <<0>>}
            \/ r.signal # "null"
            \/ r.stderr # "")
              => (~res.pass /\ ~res.compared)
        /\ (r.timeOut \/ r.signal \in {"ABORTED", "ERROR"}) => ~res.pass

\* A timed-out run and an aborted run were both judged as failed.
C25_Witness ==
    /\ Len(runAll.results) = 2
    /\ run[1].code = <<TIMEOUT_EXIT_CODE>>
    /\ run[1].timeOut
    /\ ~runAll.results[1].pass
    /\ run[2].signal = "ABORTED"
    /\ ~runAll.results[2].pass
    /\ ~runAll.results[2].compared

\* C26: killRunning touches only the invocations registered when it is
\* called: an invocation that starts later has a controller that is not
\* aborted, so in run-all a kill aborts the test case that is executing,
\* leaves run-all where it is, and the test cases after it are started and
\* executed.
C26_KillSparesLaterInvocations ==
    [][/\ \A i \in Invocations :
            (signalAborted'[i] /\ ~signalAborted[i]) =>
                /\ i \in runningExecutions
                /\ i = runAll.index
                /\ runningExecutions' = {}
       /\ \A i \in Invocations :
            (pc[i] = "idle" \/ pc'[i] = "idle") =>
                (~signalAborted'[i] /\ ~controllerAborted'[i])
       /\ signalAborted' # signalAborted => (runAll' = runAll /\ pc' = pc)
       /\ (runAll.pc = "runTestCase" /\ pc[runAll.index] = "returned") =>
            runAll'.pc \in {"runTestCase", "loop"}]_vars

\* The first test case was killed while its POST was in flight; the second
\* one was started afterwards and returned the server's result, and run-all
\* finished.
C26_Witness ==
    /\ runAll.ended = "finished"
    /\ Len(runAll.results) = 2
    /\ signalAborted[1]
    /\ obs[1].firstAbort = "signal"
    /\ run[1].signal = "ABORTED"
    /\ ~signalAborted[2]
    /\ obs[2].posts = 1
    /\ exec[2] = "buffer"
    /\ run[2].signal = "null"
    /\ run[2].code = <<0>>

====
